---------------------------- MODULE Spec2Model ----------------------------
(***************************************************************************)
(* Staged sync: the BlockHashes stage (StageBlockHashes::forward / unwind) *)
(* over the CanonicalHashes and HeaderNumbers tables, the SyncContext      *)
(* progress cache, and the key-value transaction the stage runs in.        *)
(***************************************************************************)
EXTENDS Integers, Sequences, FiniteSets, TLC

\* ------------------------------------------------------------------ bounds
\* Highest block number the upstream writes.
MaxBlock == 2
\* Number of distinct header-hash fill bytes (0xaa.., 0xbb.., 0xcc..): enough
\* for every block 0 .. MaxBlock to carry a hash of its own.
NumHashes == MaxBlock + 1

\* ------------------------------------------------------- program constants
kHashLength == 32
kBlockKeyLength == 8

kBlockBodiesKey == "Bodies"
kBlockHashesKey == "BlockHashes"

StageResults ==
    {"kSuccess", "kBadBlockHash", "kBadChainSequence", "kUnexpectedError",
     "kUnknownError", "kDbError"}

MDBX_APPEND == "MDBX_APPEND"
MDBX_UPSERT == "MDBX_UPSERT"

\* std::optional<BlockNum>: std::nullopt is the empty sequence, a value h
\* is the one-element sequence << h >>.
nullopt == << >>

\* ------------------------------------------------------------ byte strings
BlockNums == 0 .. MaxBlock

\* The `len` low-order bytes of n, most significant first.
RECURSIVE BigEndianBytes(_, _)
BigEndianBytes(n, len) ==
    IF len = 0 THEN << >>
    ELSE Append(BigEndianBytes(n \div 256, len - 1), n % 256)

\* db::block_key: the 8-byte big-endian encoding of a block number.
block_key(n) == BigEndianBytes(n, kBlockKeyLength)

\* endian::load_big_u64: the number an 8-byte big-endian string encodes.
RECURSIVE BigEndianValue(_, _)
BigEndianValue(bytes, n) ==
    IF n = 0 THEN 0 ELSE 256 * BigEndianValue(bytes, n - 1) + bytes[n]

load_big_u64(bytes) == BigEndianValue(bytes, kBlockKeyLength)

\* Lexicographic (memcmp) order of two byte strings of the same length: the
\* key order of a table whose keys are block keys.
BytesLess(a, b) ==
    \E i \in 1 .. Len(a) :
        /\ a[i] < b[i]
        /\ \A j \in 1 .. (i - 1) : a[j] = b[j]

\* A CanonicalHashes value: `len` copies of the byte `byte`.  A header hash
\* has len = kHashLength; a damaged value is one byte short.
Hash(b) == [byte |-> b, len |-> kHashLength]

\* What upstream may store: any header hash, or a value one byte short.
Values ==
    {Hash(b) : b \in 1 .. NumHashes} \cup {[byte |-> 1, len |-> kHashLength - 1]}

\* Lexicographic order of two such strings: the first byte decides; with the
\* same fill byte the shorter string is a proper prefix of the longer.
ValueLess(x, y) ==
    \/ x.byte < y.byte
    \/ x.byte = y.byte /\ x.len < y.len

IsEmptyTable(t) == DOMAIN t = {}

EmptyTable == << >>

\* t with key k mapped to v (insert or overwrite).
Put(t, k, v) == [x \in DOMAIN t \cup {k} |-> IF x = k THEN v ELSE t[x]]

\* t without key k.
Erase(t, k) == [x \in DOMAIN t \ {k} |-> t[x]]


\* -------------------------------------------------------------- KV cursors
\* A cursor move result: done says whether the cursor is on an entry.
NotFound == [done |-> FALSE]
Found(t, k) == [done |-> TRUE, key |-> k, value |-> t[k]]

\* cursor.find(key, throw_notfound = false): positions on exactly `key`.
CursorFind(t, k) == IF k \in DOMAIN t THEN Found(t, k) ELSE NotFound

\* cursor.to_next(throw_notfound = false): the next entry in key order after
\* the entry at key k.
CursorNext(t, k) ==
    LET later == {x \in DOMAIN t : BytesLess(k, x)}
    IN  IF later = {} THEN NotFound
        ELSE Found(t, CHOOSE x \in later : \A y \in later \ {x} : BytesLess(x, y))

\* ------------------------------------------------------------- SyncContext
\* db::stages::read_stage_progress: the stored watermark, 0 when absent.
read_stage_progress(tbl, stage_key) ==
    IF stage_key \in DOMAIN tbl THEN load_big_u64(tbl[stage_key]) ELSE 0

\* db::stages::write_stage_progress: stores the watermark big-endian.
write_stage_progress(tbl, stage_key, progress) ==
    Put(tbl, stage_key, block_key(progress))

\* SyncContext::get_progress, the value returned.
get_progress(cache, tbl, stage_key) ==
    IF stage_key \in DOMAIN cache THEN cache[stage_key]
    ELSE read_stage_progress(tbl, stage_key)

\* SyncContext::get_progress, the cache it leaves.
get_progress_cache(cache, tbl, stage_key) ==
    IF stage_key \in DOMAIN cache THEN cache
    ELSE Put(cache, stage_key, read_stage_progress(tbl, stage_key))

\* Mutant: a stage whose watermark equals the unwind height is unwound too.
needs_unwind_Inclusive(unwind_height, progress) ==
    ~ (unwind_height = nullopt \/ unwind_height[1] > progress)

\* SyncContext::needs_unwind, the boolean returned.
needs_unwind(unwind_height, progress) ==
    ~ (unwind_height = nullopt \/ unwind_height[1] >= progress)

\* SyncContext::update_progress, the cache it leaves.
update_progress_cache(cache, stage_key, progress) ==
    Put(cache, stage_key, progress)

\* db::stages::read_stage_prune_progress: the stored prune watermark, 0 when
\* absent.
read_stage_prune_progress(tbl, stage_key) ==
    IF stage_key \in DOMAIN tbl THEN load_big_u64(tbl[stage_key]) ELSE 0

\* db::stages::write_stage_prune_progress: stores the prune watermark.
write_stage_prune_progress(tbl, stage_key, progress) ==
    Put(tbl, stage_key, block_key(progress))

\* SyncContext::get_prune_progress, the value returned.
get_prune_progress(cache, tbl, stage_key) ==
    IF stage_key \in DOMAIN cache THEN cache[stage_key]
    ELSE read_stage_prune_progress(tbl, stage_key)

\* SyncContext::get_prune_progress, the cache it leaves.
get_prune_progress_cache(cache, tbl, stage_key) ==
    IF stage_key \in DOMAIN cache THEN cache
    ELSE Put(cache, stage_key, read_stage_prune_progress(tbl, stage_key))

\* SyncContext::update_prune_progress, the cache it leaves.
update_prune_progress_cache(cache, stage_key, progress) ==
    Put(cache, stage_key, progress)

\* --------------------------------------------------------------- Collector
\* Entry order: lexicographic on key, then on value.
EntryLess(a, b) ==
    \/ ValueLess(a.key, b.key)
    \/ a.key = b.key /\ BytesLess(a.value, b.value)

\* Insert one entry into an already sorted sequence.
RECURSIVE SortedInsert(_, _)
SortedInsert(sorted, e) ==
    IF sorted = << >> THEN << e >>
    ELSE IF EntryLess(e, Head(sorted)) THEN << e >> \o sorted
    ELSE << Head(sorted) >> \o SortedInsert(Tail(sorted), e)

\* The collected entries sorted by (key, value).
RECURSIVE SortEntries(_)
SortEntries(entries) ==
    IF entries = << >> THEN << >>
    ELSE SortedInsert(SortEntries(Tail(entries)), Head(entries))

\* The greatest key of a non-empty table.
LastKey(t) == CHOOSE k \in DOMAIN t : \A x \in DOMAIN t \ {k} : ValueLess(x, k)

\* The entries a flush threshold of T bytes lets the buffer hold, and the
\* number of collect calls followed.
FlushThreshold == 1
MaxCollect == 3

\* A Collector with nothing collected.
NoEntries == [buffer |-> << >>, runs |-> << >>]

\* Mutant: a full buffer is spilled as a run without being sorted.
collect_SpillUnsorted(c, e) ==
    IF Len(c.buffer) + 1 > FlushThreshold
    THEN [buffer |-> << >>, runs |-> Append(c.runs, Append(c.buffer, e))]
    ELSE [buffer |-> Append(c.buffer, e), runs |-> c.runs]

\* Collector::collect: append the entry; a buffer that exceeds the threshold
\* is sorted and written out as a new run, and the buffer is reset.
collect(c, e) ==
    IF Len(c.buffer) + 1 > FlushThreshold
    THEN [buffer |-> << >>,
          runs |-> Append(c.runs, SortEntries(Append(c.buffer, e)))]
    ELSE [buffer |-> Append(c.buffer, e), runs |-> c.runs]

\* The run whose head the min-heap keyed on (key, value, run_id) pops next.
MinRun(runs) ==
    CHOOSE i \in DOMAIN runs :
        /\ runs[i] # << >>
        /\ \A j \in DOMAIN runs \ {i} :
              runs[j] # << >> =>
                  \/ EntryLess(Head(runs[i]), Head(runs[j]))
                  \/ Head(runs[i]) = Head(runs[j]) /\ i < j

\* The k-way merge of the sorted runs.
RECURSIVE MergeRuns(_)
MergeRuns(runs) ==
    IF \A i \in DOMAIN runs : runs[i] = << >> THEN << >>
    ELSE LET i == MinRun(runs)
         IN  << Head(runs[i]) >>
                 \o MergeRuns([runs EXCEPT ![i] = Tail(runs[i])])

\* The entries in the order load consumes them: the sorted buffer when no run
\* was spilled, else the merge of the runs and of the remaining buffer
\* flushed as the final run.
LoadOrder(c) ==
    IF c.runs = << >> THEN SortEntries(c.buffer)
    ELSE IF c.buffer = << >> THEN MergeRuns(c.runs)
    ELSE MergeRuns(Append(c.runs, SortEntries(c.buffer)))

\* Mutant: the destination cursor accepts any key in any mode.
CursorPutAccepts_Any(t, e, flags) == TRUE

\* One insert through the destination cursor: MDBX_APPEND needs a key
\* strictly greater than the last key of the table, MDBX_UPSERT overwrites.
CursorPutAccepts(t, e, flags) ==
    flags = MDBX_APPEND => (IsEmptyTable(t) \/ ValueLess(LastKey(t), e.key))

\* Streams sorted entries into the table, stopping at the first insert the
\* store rejects; what was inserted before it stays in the transaction.
RECURSIVE LoadSorted(_, _, _)
LoadSorted(t, sorted, flags) ==
    IF sorted = << >> THEN [ok |-> TRUE, table |-> t]
    ELSE IF ~ CursorPutAccepts(t, Head(sorted), flags)
         THEN [ok |-> FALSE, table |-> t]
    ELSE LoadSorted(Put(t, Head(sorted).key, Head(sorted).value),
                    Tail(sorted), flags)

\* Collector::load
CollectorLoad(t, entries, flags) == LoadSorted(t, SortEntries(entries), flags)

\* ------------------------------------------------------------ thrown kinds
\* Where a call may throw and what is thrown: the store throws an
\* mdbx::exception from any of its calls (opening or moving the source cursor,
\* the first write through the target cursor, the watermark write, the
\* commit); any other condition is thrown while the source is scanned.
FaultPoints == {"source", "target", "progress", "commit"}
ThrownKinds == {"mdbx::exception", "std::exception", "other"}
NoFault == [point |-> "none", kind |-> "none"]
Faults ==
    {NoFault}
        \cup [point : FaultPoints, kind : {"mdbx::exception"}]
        \cup [point : {"source"}, kind : ThrownKinds]

\* Mutant: a store exception is reported like any other standard exception.
CatchResult_NoDbClause(kind) ==
    CASE kind = "std::exception" -> "kUnexpectedError"
      [] kind = "mdbx::exception" -> "kUnexpectedError"
      [] OTHER -> "kUnknownError"

\* Mutant: whatever is thrown that is not a store exception is reported as
\* kUnexpectedError.
CatchResult_NoCatchAll(kind) ==
    CASE kind = "mdbx::exception" -> "kDbError"
      [] OTHER -> "kUnexpectedError"

\* The type of what was thrown in a call that ended at the point `thrown`:
\* the store rejecting an insert of the load throws mdbx::exception.
ThrownKind(thrown, fault) ==
    IF thrown = "none" THEN "none"
    ELSE IF thrown = "load" THEN "mdbx::exception"
    ELSE fault.kind

\* The catch clauses at the stage boundary.
CatchResult(kind) ==
    CASE kind = "mdbx::exception" -> "kDbError"
      [] kind = "std::exception" -> "kUnexpectedError"
      [] OTHER -> "kUnknownError"

\* ------------------------------------------------ StageBlockHashes::forward
\* The scan of CanonicalHashes: source_data is the cursor position,
\* block_number the last number decoded, entries what was collected so far.
\* Mutant: the scan checks the length of the value before the block number.
RECURSIVE ForwardScan_LengthFirst(_, _, _, _, _)
ForwardScan_LengthFirst(canon, source_data, expected_block_number, block_number, entries) ==
    IF ~ source_data.done
    THEN [result |-> "kSuccess", block_number |-> block_number,
          entries |-> entries]
    ELSE LET number == load_big_u64(source_data.key)
         IN  IF source_data.value.len # kHashLength
             THEN [result |-> "kBadBlockHash", block_number |-> number,
                   entries |-> entries]
             ELSE IF number # expected_block_number
             THEN [result |-> "kBadChainSequence", block_number |-> number,
                   entries |-> entries]
             ELSE ForwardScan_LengthFirst(
                      canon, CursorNext(canon, source_data.key),
                      expected_block_number + 1, number,
                      Append(entries, [key |-> source_data.value,
                                       value |-> source_data.key]))

RECURSIVE ForwardScan(_, _, _, _, _)
ForwardScan(canon, source_data, expected_block_number, block_number, entries) ==
    IF ~ source_data.done
    THEN [result |-> "kSuccess", block_number |-> block_number,
          entries |-> entries]
    ELSE LET number == load_big_u64(source_data.key)
         IN  IF number # expected_block_number
             THEN [result |-> "kBadChainSequence", block_number |-> number,
                   entries |-> entries]
             ELSE IF source_data.value.len # kHashLength
             THEN [result |-> "kBadBlockHash", block_number |-> number,
                   entries |-> entries]
             ELSE ForwardScan(canon, CursorNext(canon, source_data.key),
                              expected_block_number + 1, number,
                              Append(entries, [key |-> source_data.value,
                                               value |-> source_data.key]))

\* Mutant: the scan always starts one above the watermark, genesis never read.
ForwardStart_SkipGenesis(progress) == progress + 1

\* The first block number forward scans from.
ForwardStart(progress) == IF progress # 0 THEN progress + 1 ELSE progress

\* Mutant: the last observed block number is not compared with the Bodies
\* watermark.
ForwardAfterScan_Unchecked(block_number, progress_bodies, entries) ==
    IF entries = << >> THEN "kSuccess" ELSE "load"

\* What forward decides once the scan has ended normally.
ForwardAfterScan(block_number, progress_bodies, entries) ==
    IF block_number # progress_bodies THEN "kBadChainSequence"
    ELSE IF entries = << >> THEN "kSuccess"
    ELSE "load"

\* Mutant: forward always loads in append mode.
ForwardPutFlags_AlwaysAppend(target_table) == MDBX_APPEND

\* The put flags forward loads with.
ForwardPutFlags(target_table) ==
    IF IsEmptyTable(target_table) THEN MDBX_APPEND ELSE MDBX_UPSERT

\* One call of forward in a transaction that sees HeaderNumbers = hn and
\* SyncStageProgress = prog, with the context cache `cache`.  The outcome:
\* the result returned, both tables as the transaction sees them at return,
\* the cache, and whether the transaction was committed.
forward(canon, hn, prog, cache, fault) ==
    LET progress_bodies == get_progress(cache, prog, kBlockBodiesKey)
        cache1 == get_progress_cache(cache, prog, kBlockBodiesKey)
        progress == get_progress(cache1, prog, kBlockHashesKey)
        cache2 == get_progress_cache(cache1, prog, kBlockHashesKey)
        expected_block_number == ForwardStart(progress)
        scan == ForwardScan(canon,
                            CursorFind(canon, block_key(expected_block_number)),
                            expected_block_number, 0, << >>)
        decision == IF scan.result # "kSuccess" THEN scan.result
                    ELSE ForwardAfterScan(scan.block_number, progress_bodies,
                                          scan.entries)
        loaded == CollectorLoad(hn, scan.entries, ForwardPutFlags(hn))
        cache3 == update_progress_cache(cache2, kBlockHashesKey,
                                        scan.block_number)
        prog3 == write_stage_progress(prog, kBlockHashesKey, scan.block_number)
        Out(res, hn_, prog_, cache_, commit_, thrown_) ==
            [result |-> res, hn |-> hn_, prog |-> prog_, cache |-> cache_,
             commit |-> commit_, thrown |-> thrown_, start |-> progress,
             target |-> progress_bodies, collected |-> Len(scan.entries),
             erased |-> 0, kind |-> ThrownKind(thrown_, fault),
             flags |-> IF commit_ \/ thrown_ \in {"load", "progress", "commit"}
                       THEN ForwardPutFlags(hn) ELSE "none"]
    IN  IF fault.point = "source"
        THEN Out(CatchResult(fault.kind), hn, prog, cache2, FALSE, "source")
        ELSE IF decision # "load"
        THEN Out(decision, hn, prog, cache2, FALSE, "none")
        ELSE IF fault.point = "target"
        THEN Out(CatchResult(fault.kind), hn, prog, cache2, FALSE, "target")
        ELSE IF ~ loaded.ok
        THEN Out(CatchResult("mdbx::exception"), loaded.table, prog, cache2,
                 FALSE, "load")
        ELSE IF fault.point = "progress"
        THEN Out(CatchResult(fault.kind), loaded.table, prog, cache3, FALSE,
                 "progress")
        ELSE IF fault.point = "commit"
        THEN Out(CatchResult(fault.kind), loaded.table, prog3, cache3, FALSE,
                 "commit")
        ELSE Out("kSuccess", loaded.table, prog3, cache3, TRUE, "none")

\* ------------------------------------------------- StageBlockHashes::unwind
\* The scan of CanonicalHashes that erases from HeaderNumbers: target is
\* HeaderNumbers as the transaction sees it, erased counts the erases done,
\* seek_throws says whether the first seek on the target cursor throws.
RECURSIVE UnwindScan(_, _, _, _, _, _)
UnwindScan(canon, target, source_data, expected_block_number, erased, seek_throws) ==
    IF ~ source_data.done
    THEN [result |-> "kSuccess", hn |-> target, erased |-> erased]
    ELSE LET number == load_big_u64(source_data.key)
         IN  IF number # expected_block_number
             THEN [result |-> "kBadChainSequence", hn |-> target,
                   erased |-> erased]
             ELSE IF source_data.value.len # kHashLength
             THEN [result |-> "kBadBlockHash", hn |-> target,
                   erased |-> erased]
             ELSE IF seek_throws
             THEN [result |-> "thrown", hn |-> target, erased |-> erased]
             ELSE IF source_data.value \in DOMAIN target
             THEN UnwindScan(canon, Erase(target, source_data.value),
                             CursorNext(canon, source_data.key),
                             expected_block_number + 1, erased + 1, FALSE)
             ELSE UnwindScan(canon, target,
                             CursorNext(canon, source_data.key),
                             expected_block_number + 1, erased, FALSE)

\* Mutant: the scan always starts one above the unwind height.
UnwindStart_AboveHeight(unwind_progress) == unwind_progress + 1

\* Mutant: the scan starts at the unwind height itself.
UnwindStart_AtHeight(unwind_progress) == unwind_progress

\* The first block number unwind scans from.
UnwindStart(unwind_progress) ==
    IF unwind_progress # 0 THEN unwind_progress + 1 ELSE unwind_progress

\* One call of unwind; the outcome has the shape of forward's.
unwind(canon, hn, prog, cache, unwind_height, fault) ==
    LET progress == get_progress(cache, prog, kBlockHashesKey)
        cache1 == get_progress_cache(cache, prog, kBlockHashesKey)
        unwind_progress ==
            IF needs_unwind(unwind_height, progress) THEN unwind_height[1] ELSE 0
        expected_block_number == UnwindStart(unwind_progress)
        scan == UnwindScan(canon, hn,
                           CursorFind(canon, block_key(expected_block_number)),
                           expected_block_number, 0, fault.point = "target")
        cache2 == update_progress_cache(cache1, kBlockHashesKey, unwind_progress)
        prog2 == write_stage_progress(prog, kBlockHashesKey, unwind_progress)
        Out(res, hn_, prog_, cache_, commit_, erased_, thrown_) ==
            [result |-> res, hn |-> hn_, prog |-> prog_, cache |-> cache_,
             commit |-> commit_, thrown |-> thrown_, start |-> progress,
             target |-> unwind_progress, collected |-> 0, erased |-> erased_,
             kind |-> ThrownKind(thrown_, fault), flags |-> "none"]
    IN  IF ~ needs_unwind(unwind_height, progress)
        THEN Out("kSuccess", hn, prog, cache1, FALSE, 0, "none")
        ELSE IF fault.point = "source"
        THEN Out(CatchResult(fault.kind), hn, prog, cache1, FALSE, 0, "source")
        ELSE IF scan.result = "thrown"
        THEN Out(CatchResult(fault.kind), scan.hn, prog, cache1, FALSE,
                 scan.erased, "target")
        ELSE IF scan.result # "kSuccess"
        THEN Out(scan.result, scan.hn, prog, cache1, FALSE, scan.erased, "none")
        ELSE IF fault.point = "progress"
        THEN Out(CatchResult(fault.kind), scan.hn, prog, cache2, FALSE,
                 scan.erased, "progress")
        ELSE IF fault.point = "commit"
        THEN Out(CatchResult(fault.kind), scan.hn, prog2, cache2, FALSE,
                 scan.erased, "commit")
        ELSE Out("kSuccess", scan.hn, prog2, cache2, TRUE, scan.erased, "none")

\* ------------------------------------------------------------------- state
VARIABLES
    canonical,       \* CanonicalHashes: block key -> value, written upstream
    hnDb,            \* HeaderNumbers as committed
    progDb,          \* SyncStageProgress as committed
    hnTx,            \* HeaderNumbers as the last stage call's transaction saw it at return
    progTx,          \* SyncStageProgress as that transaction saw it at return
    progresses_,     \* SyncContext::progresses_, the forward-progress cache
    unwind_height_,  \* SyncContext::unwind_height_
    last,            \* the last stage call: what ran, its inputs and outcome, the state before it
    prev,            \* a summary of the stage call before that
    pristine,        \* CanonicalHashes was a well-formed chain at every stage call so far
    etl,             \* a Collector exercised on its own, with its destination table
    is_done_,        \* SyncContext::is_done_
    cycle,           \* SyncManager::run and run_cycle: where they are and what they did
    prune_progresses_,  \* SyncContext::prune_progresses_, the prune-progress cache
    pruneDb,         \* the prune watermarks of SyncStageProgress as committed
    last_prune,      \* the last call of a stage's prune and what it returned
    farm,            \* a RecoveryFarm and the recover call running on it
    rlp              \* an input stream handed to the RLP decoder, and what decoding gave

vars == << canonical, hnDb, progDb, hnTx, progTx, progresses_, unwind_height_,
           last, prev, pristine, etl, is_done_, cycle,
           prune_progresses_, pruneDb, last_prune, farm, rlp >>

\* An operation of the environment leaves this in `last` and `prev`.
NoCall == [op |-> "none"]

\* What `last` records of a stage call: its inputs, its outcome, and the
\* committed HeaderNumbers and BlockHashes watermark before it.
CallRecord(op, out) ==
    [op |-> op, result |-> out.result, thrown |-> out.thrown,
     start |-> out.start, target |-> out.target, collected |-> out.collected,
     erased |-> out.erased, commit |-> out.commit, kind |-> out.kind,
     flags |-> out.flags,
     hn0 |-> hnDb, stored0 |-> read_stage_progress(progDb, kBlockHashesKey)]

\* What `prev` keeps of the call before the last one.
Summary(call) ==
    IF call.op = "none" THEN NoCall
    ELSE [op |-> call.op, result |-> call.result, commit |-> call.commit]

\* The block numbers that have a CanonicalHashes entry.
CanonNums(canon) == {n \in BlockNums : block_key(n) \in DOMAIN canon}

\* CanonicalHashes is a gap-free run of blocks lo .. hi, each with a header
\* hash of its own.
IsChain(canon, lo, hi) ==
    /\ CanonNums(canon) = lo .. hi
    /\ \A n \in lo .. hi : canon[block_key(n)].len = kHashLength
    /\ \A m, n \in lo .. hi : m # n => canon[block_key(m)] # canon[block_key(n)]

\* CanonicalHashes is empty or a gap-free run of blocks from genesis or from
\* block 1, with pairwise distinct header hashes.
WellFormed(canon) ==
    \E lo \in {0, 1}, hi \in -1 .. MaxBlock : IsChain(canon, lo, hi)

\* SyncManager before run is called: SyncContext::clear has set first_cycle_.
CycleIdle ==
    [pc |-> "idle", i |-> 0, visited |-> << >>, invoked |-> << >>,
     res |-> "kSuccess", returned |-> FALSE, first_cycle_ |-> TRUE]

\* A Collector just constructed, and the destination it will load into.
EtlNew(dest0) ==
    [phase |-> "collect", entries |-> NoEntries, collected |-> << >>,
     dest0 |-> dest0, dest |-> dest0, presented |-> << >>, ok |-> TRUE,
     flags |-> "none"]

\* SyncManager's constructor: SyncContext::clear, then load_stages primes the
\* cache with the stored BlockHashes watermark of an empty store.
InitStaged ==
    /\ canonical = EmptyTable
    /\ hnDb = EmptyTable
    /\ progDb = EmptyTable
    /\ hnTx = EmptyTable
    /\ progTx = EmptyTable
    /\ progresses_ =
          get_progress_cache(EmptyTable, EmptyTable, kBlockHashesKey)
    /\ unwind_height_ = nullopt
    /\ last = NoCall
    /\ prev = NoCall
    /\ pristine = TRUE
    /\ etl = EtlNew(EmptyTable)
    /\ is_done_ = FALSE
    /\ cycle = CycleIdle
    /\ prune_progresses_ =
          get_prune_progress_cache(EmptyTable, EmptyTable, kBlockHashesKey)
    /\ pruneDb = EmptyTable
    /\ last_prune = NoCall

\* No recovery farm has been constructed.
NoFarm == [pc |-> "none"]

\* No stream has been handed to the decoder.
NoStream == [op |-> "none"]

\* The state after SyncManager's constructor on an empty database.
Init ==
    /\ InitStaged
    /\ farm = NoFarm
    /\ rlp = NoStream

\* Mutant: no transaction, every write of a call reaches the store at once.
TxCommit_WriteThrough(out, tx_table, db_table) == tx_table

\* What the store holds of a table after a call: what the call's transaction
\* saw if tx_mgr.commit() completed, what it held before otherwise.
TxCommit(out, tx_table, db_table) ==
    IF out.commit THEN tx_table ELSE db_table

\* A stage call runs in a write transaction opened on the committed store;
\* a successful call commits it.
StageCall(op, out) ==
    /\ hnTx' = out.hn
    /\ progTx' = out.prog
    /\ hnDb' = TxCommit(out, out.hn, hnDb)
    /\ progDb' = TxCommit(out, out.prog, progDb)
    /\ progresses_' = out.cache
    /\ last' = CallRecord(op, out)
    /\ prev' = Summary(last)
    /\ pristine' = (pristine /\ WellFormed(canonical))
    /\ UNCHANGED << canonical, unwind_height_, etl, is_done_, cycle >>
    /\ UNCHANGED << prune_progresses_, pruneDb, last_prune, farm, rlp >>

\* A call of forward during which nothing throws but what the data makes the
\* store reject.
Forward ==
    StageCall("forward",
              forward(canonical, hnDb, progDb, progresses_, NoFault))

\* A call of unwind during which nothing throws.
Unwind ==
    StageCall("unwind",
              unwind(canonical, hnDb, progDb, progresses_, unwind_height_,
                     NoFault))

\* A call of forward during which a store call (or the scan) throws.
ForwardThrows ==
    \E fault \in Faults \ {NoFault} :
        StageCall("forward",
                  forward(canonical, hnDb, progDb, progresses_, fault))

\* A call of unwind during which a store call (or the scan) throws.
UnwindThrows ==
    \E fault \in Faults \ {NoFault} :
        StageCall("unwind",
                  unwind(canonical, hnDb, progDb, progresses_, unwind_height_,
                         fault))

\* What every operation of the environment does to the call history and to
\* the transaction view.
EnvStep ==
    /\ last' = NoCall
    /\ prev' = NoCall
    /\ hnTx' = hnDb
    /\ progTx' = progDb'
    /\ UNCHANGED << pristine, etl, is_done_, cycle >>
    /\ UNCHANGED << prune_progresses_, pruneDb, last_prune, farm, rlp >>

\* The block number of the BlockHashes watermark as committed.
StoredProgress == read_stage_progress(progDb, kBlockHashesKey)

\* Upstream writes a CanonicalHashes entry above the BlockHashes watermark
\* (or the genesis entry while it is missing).
UpstreamPut ==
    \E num \in BlockNums, val \in Values :
        /\ \/ num > StoredProgress
           \/ num = 0 /\ block_key(0) \notin DOMAIN canonical
        /\ canonical' = Put(canonical, block_key(num), val)
        /\ UNCHANGED << hnDb, progDb, progresses_, unwind_height_ >>
        /\ EnvStep

\* Upstream removes a CanonicalHashes entry above the BlockHashes watermark.
UpstreamDelete ==
    \E num \in BlockNums :
        /\ num > StoredProgress
        /\ block_key(num) \in DOMAIN canonical
        /\ canonical' = Erase(canonical, block_key(num))
        /\ UNCHANGED << hnDb, progDb, progresses_, unwind_height_ >>
        /\ EnvStep

\* The Bodies stage publishes its watermark through the context and commits.
StageBodies ==
    \E num \in BlockNums :
        /\ progresses_' = update_progress_cache(progresses_, kBlockBodiesKey, num)
        /\ progDb' = write_stage_progress(progDb, kBlockBodiesKey, num)
        /\ UNCHANGED << canonical, hnDb, unwind_height_ >>
        /\ EnvStep

\* The external signal sets (or the driver clears) the unwind height.
SetUnwindHeight ==
    \E h \in {nullopt} \cup {<< n >> : n \in BlockNums} :
        /\ h # unwind_height_
        /\ unwind_height_' = h
        /\ UNCHANGED << canonical, hnDb, progDb, progresses_ >>
        /\ EnvStep

Next ==
    \/ Forward
    \/ Unwind
    \/ UpstreamPut
    \/ UpstreamDelete
    \/ StageBodies
    \/ SetUnwindHeight

Spec == Init /\ [][Next]_vars

\* The last call returned because a store call threw.
Thrown == last.op # "none" /\ last.thrown \in FaultPoints

\* The same system with a store whose calls may throw; it is followed up to
\* the return of the first call that a throwing store call ends.
NextThrows ==
    \/ ~ Thrown /\ Next
    \/ ~ Thrown /\ ForwardThrows
    \/ ~ Thrown /\ UnwindThrows

SpecThrows == Init /\ [][NextThrows]_vars

\* ------------------------------------------------------ claims: vocabulary
\* The BlockHashes watermark as the last stage call's transaction saw it at
\* return.
StoredTx == read_stage_progress(progTx, kBlockHashesKey)

\* The inverse index of the canonical blocks in `nums`: hash -> block key.
IndexOf(canon, nums) ==
    [v \in {canon[block_key(n)] : n \in nums} |->
        block_key(CHOOSE n \in nums : canon[block_key(n)] = v)]

\* `t` without the keys in `keys`.
Without(t, keys) == [k \in DOMAIN t \ keys |-> t[k]]

\* The last call was a forward that started from an empty HeaderNumbers with
\* the watermark 0 and the Bodies watermark n.
FreshForwardTo(n) ==
    /\ last.op = "forward"
    /\ last.start = 0
    /\ last.stored0 = 0
    /\ last.target = n
    /\ last.hn0 = EmptyTable

C2_AsStated ==
    (/\ last.op = "forward"
     /\ prev.op = "forward"
     /\ prev.commit
     /\ last.start = last.target)
        => /\ last.result = "kSuccess"
           /\ hnTx = last.hn0
           /\ StoredTx = last.stored0

\* ---------------------------------------------------------------------- C3
\* The canonical blocks at or below the committed BlockHashes watermark.
IndexedNums == {n \in CanonNums(canonical) : n <= StoredProgress}

UnwindNeeded ==
    /\ last.op = "unwind"
    /\ unwind_height_ # nullopt
    /\ unwind_height_[1] < last.start

\* The header hashes of the canonical blocks numbered `from` and above.
HashesFrom(from) ==
    {canonical[block_key(n)] : n \in {m \in CanonNums(canonical) : m >= from}}

\* The CanonicalHashes entries from block `from` upward are in sequence,
\* starting at `from`, each with a 32-byte value.
CleanFrom(from) ==
    LET nums == {m \in CanonNums(canonical) : m >= from}
    IN  /\ \A n \in nums : from .. n \subseteq nums
        /\ \A n \in nums : canonical[block_key(n)].len = kHashLength

C5_UnwindIdempotent ==
    (/\ last.op = "unwind"
     /\ prev.op = "unwind"
     /\ prev.result = "kSuccess")
        => /\ last.result = "kSuccess"
           /\ last.erased = 0
           /\ ~ last.commit
           /\ hnTx = last.hn0
           /\ hnDb = last.hn0
           /\ StoredTx = last.stored0
           /\ StoredProgress = last.stored0

\* A second unwind has run right after an unwind that erased and committed.
C5_Witness ==
    /\ last.op = "unwind"
    /\ prev.op = "unwind"
    /\ prev.commit
    /\ unwind_height_ # nullopt
    /\ StoredProgress = unwind_height_[1]

\* ---------------------------------------------------------------------- C6
\* The step is an unwind to the height s that the forward just before it
\* started from, both successful, over a well-formed CanonicalHashes.
ForwardThenUnwindBack ==
    /\ last.op = "forward"
    /\ last.commit
    /\ last'.op = "unwind"
    /\ last'.result = "kSuccess"
    /\ unwind_height_ = << last.stored0 >>
    /\ pristine'

CanonUpTo(h) ==
    [k \in {block_key(n) : n \in 0 .. h} \cap DOMAIN canonical |-> canonical[k]]

\* SyncStageProgress with the Bodies watermark at n and nothing else.
BodiesAt(n) == write_stage_progress(EmptyTable, kBlockBodiesKey, n)

\* An uninterrupted forward to h: from an empty store, over the canonical
\* blocks 0 .. h, with the Bodies watermark at h.
ForwardUpTo(h) ==
    forward(CanonUpTo(h), EmptyTable, BodiesAt(h), EmptyTable, NoFault)

\* The forward that follows it, over all of CanonicalHashes with the Bodies
\* watermark at t.
ForwardOnFrom(h, t) ==
    forward(canonical, ForwardUpTo(h).hn,
            write_stage_progress(ForwardUpTo(h).prog, kBlockBodiesKey, t),
            EmptyTable, NoFault)

\* C7: over a CanonicalHashes that was a gap-free sequence of distinct 32-byte
\* hashes at every call, an unwind to h followed by a successful forward to
\* t > h leaves the
\* HeaderNumbers and the watermark that a forward from the state reached by
\* an uninterrupted forward to h leaves.
C7_UnwindThenForward ==
    [][(/\ last.op = "unwind"
        /\ last.commit
        /\ last'.op = "forward"
        /\ last'.result = "kSuccess"
        /\ unwind_height_[1] < last'.target
        /\ pristine'
        /\ ForwardUpTo(unwind_height_[1]).result = "kSuccess")
          => LET direct == ForwardOnFrom(unwind_height_[1], last'.target)
             IN  /\ direct.result = "kSuccess"
                 /\ hnTx' = direct.hn
                 /\ hnDb' = direct.hn
                 /\ StoredTx' = read_stage_progress(direct.prog, kBlockHashesKey)
                 /\ StoredProgress' = last'.target]_vars

\* A forward has indexed again what the unwind just before it had erased.
C7_Witness ==
    /\ last.op = "forward"
    /\ last.commit
    /\ last.collected >= 1
    /\ prev.op = "unwind"
    /\ prev.commit
    /\ unwind_height_ # nullopt
    /\ unwind_height_[1] >= 1
    /\ last.start = unwind_height_[1]
    /\ pristine

\* ---------------------------------------------------------------------- C8
\* The block number the forward call just made began its scan at.
ScanStart == IF last.start = 0 THEN 0 ELSE last.start + 1

\* CanonicalHashes holds the entry the scan begins at.
ScanFound == block_key(ScanStart) \in DOMAIN canonical

\* The last block of the gap-free run of entries that begins at ScanStart.
RunEnd ==
    CHOOSE m \in ScanStart .. MaxBlock :
        /\ \A k \in ScanStart .. m : k \in CanonNums(canonical)
        /\ (m + 1) \notin CanonNums(canonical)

\* The value of block n's entry is 32 bytes long.
LenOk(n) == canonical[block_key(n)].len = kHashLength

\* Every entry of the run holds a 32-byte value.
RunLenOk == \A k \in ScanStart .. RunEnd : LenOk(k)

\* The block numbers of the entries beyond the first gap above the run.
BeyondGap == {n \in CanonNums(canonical) : n > RunEnd}

\* The first entry the scan meets beyond the gap.
FirstBeyondGap == CHOOSE n \in BeyondGap : \A k \in BeyondGap : n <= k

\* C8: forward returns kBadChainSequence when the scan meets an entry whose
\* block number is not the expected next one, and when the scan ends with the
\* last observed block number (0 when no entry was observed) different from
\* the Bodies watermark.
C8_BadChainSequence ==
    last.op = "forward"
        => /\ (ScanFound /\ RunLenOk /\ BeyondGap # {})
                  => last.result = "kBadChainSequence"
           /\ (ScanFound /\ RunLenOk /\ BeyondGap = {}
               /\ RunEnd # last.target)
                  => last.result = "kBadChainSequence"
           /\ (~ ScanFound /\ last.target # 0)
                  => last.result = "kBadChainSequence"

\* A forward whose scan ran to the end of a CanonicalHashes that extends
\* beyond the Bodies watermark has returned kBadChainSequence.
C8_Witness ==
    /\ last.op = "forward"
    /\ ScanFound
    /\ RunLenOk
    /\ BeyondGap = {}
    /\ RunEnd > last.target
    /\ last.target >= 1
    /\ last.result = "kBadChainSequence"

\* ---------------------------------------------------------------------- C9
\* C9: forward returns kBadBlockHash when the first offending entry of the
\* scan is in sequence and its value is not 32 bytes long; an entry that is
\* out of sequence and of a wrong length yields kBadChainSequence.
C9_BadBlockHash ==
    last.op = "forward"
        => /\ (ScanFound /\ ~ RunLenOk)
                  => last.result = "kBadBlockHash"
           /\ (ScanFound /\ RunLenOk /\ BeyondGap # {}
               /\ ~ LenOk(FirstBeyondGap))
                  => last.result = "kBadChainSequence"

\* A forward has returned kBadBlockHash for a 31-byte value that follows
\* well-formed entries in sequence.
C9_Witness ==
    /\ last.op = "forward"
    /\ ScanFound
    /\ RunEnd > ScanStart
    /\ LenOk(ScanStart)
    /\ ~ LenOk(RunEnd)
    /\ canonical[block_key(RunEnd)].len = kHashLength - 1
    /\ last.result = "kBadBlockHash"

\* --------------------------------------------------------------------- C10
\* C10 as stated: when forward returns anything but success (here over a
\* CanonicalHashes that was well-formed at every call), HeaderNumbers and the
\* stored BlockHashes watermark, as committed and as the open transaction
\* sees them, are what they were before the call.
C10_AsStated ==
    (/\ pristine
     /\ last.op = "forward"
     /\ last.result # "kSuccess")
        => /\ hnTx = last.hn0
           /\ hnDb = last.hn0
           /\ StoredTx = last.stored0
           /\ StoredProgress = last.stored0

StoredBodies == read_stage_progress(progDb, kBlockBodiesKey)

\* C12: a forward call entered with progress(BlockHashes) <= progress(Bodies)
\* leaves progress(BlockHashes) <= progress(Bodies), in the store, in the open
\* transaction and in the context's cache, whatever it returns; when it
\* returns success the two are equal.
C12_StageOrder ==
    (last.op = "forward" /\ last.start <= last.target)
        => /\ StoredProgress <= last.target
           /\ StoredTx <= last.target
           /\ progresses_[kBlockHashesKey] <= last.target
           /\ StoredBodies = last.target
           /\ last.result = "kSuccess"
                  => /\ StoredProgress = last.target
                     /\ StoredTx = last.target
                     /\ progresses_[kBlockHashesKey] = last.target

\* A forward entered below the Bodies watermark has failed and left the
\* BlockHashes watermark below it.
C12_Witness ==
    /\ last.op = "forward"
    /\ last.start < last.target
    /\ last.result = "kBadChainSequence"
    /\ StoredProgress < StoredBodies

\* --------------------------------------------------------------------- C13
\* C13: a forward or unwind call in which a store call (cursor, load,
\* watermark write or commit) threw mdbx::exception has returned kDbError
\* without committing: the stored watermark is what it was before the call.
C13_DbError ==
    (last.op # "none" /\ last.kind = "mdbx::exception")
        => /\ last.result = "kDbError"
           /\ ~ last.commit
           /\ StoredProgress = last.stored0

\* The commit of a forward has thrown after the watermark was written in the
\* transaction: kDbError, and the store keeps the old watermark.
C13_Witness ==
    /\ last.op = "forward"
    /\ last.thrown = "commit"
    /\ last.kind = "mdbx::exception"
    /\ last.result = "kDbError"
    /\ StoredTx > StoredProgress

\* --------------------------------------------------------------------- C14
\* Something that is not a store exception was thrown in the last call.
ThrownNotDb == last.op # "none" /\ last.kind \in ThrownKinds \ {"mdbx::exception"}

\* C14 as stated: whatever is thrown in forward or unwind that is not a store
\* exception, of a standard exception type or not, is reported as
\* kUnexpectedError.
C14_AsStated == ThrownNotDb => last.result = "kUnexpectedError"

\* C14 amended: what is thrown in forward or unwind and is not a store
\* exception is caught; a std::exception is reported as kUnexpectedError,
\* anything else as kUnknownError; nothing is committed.
C14_CatchLadder ==
    ThrownNotDb
        => /\ last.kind = "std::exception" => last.result = "kUnexpectedError"
           /\ last.kind = "other" => last.result = "kUnknownError"
           /\ ~ last.commit
           /\ hnDb = last.hn0
           /\ StoredProgress = last.stored0

\* An unwind that had work to do has ended on a thrown value that is not a
\* standard exception.
C14_Witness ==
    /\ last.op = "unwind"
    /\ last.kind = "other"
    /\ last.result = "kUnknownError"
    /\ last.start > last.target

\* --------------------------------------------------------------------- C15
\* C15 as stated: a forward whose load in APPEND mode (HeaderNumbers empty
\* before the call) was stopped by the store rejecting a key that is not
\* greater than the last one written returns kBadChainSequence.
C15_AsStated ==
    (/\ last.op = "forward"
     /\ last.thrown = "load"
     /\ last.hn0 = EmptyTable)
        => last.result = "kBadChainSequence"

\* --------------------------------------------------------- Collector alone
\* The entries collected: HeaderNumbers-shaped, a hash for key and a block
\* key for value.
EtlKeys == {Hash(1), Hash(2)}
EtlEntries == [key : EtlKeys, value : {block_key(0), block_key(1)}]

\* The destinations loaded into: empty, or holding one key already.
DestTables == {EmptyTable} \cup {Put(EmptyTable, k, block_key(0)) : k \in EtlKeys}

\* collect(key, value)
EtlCollect ==
    \E e \in EtlEntries :
        /\ etl.phase = "collect"
        /\ Len(etl.collected) < MaxCollect
        /\ etl' = [etl EXCEPT !.entries = collect(etl.entries, e),
                              !.collected = Append(etl.collected, e)]
        /\ UNCHANGED << canonical, hnDb, progDb, hnTx, progTx, progresses_,
                        unwind_height_, last, prev, pristine, is_done_, cycle >>
        /\ UNCHANGED << prune_progresses_, pruneDb, last_prune, farm, rlp >>

\* load(dest_cursor, nullptr, flags)
EtlLoad ==
    \E flags \in {MDBX_APPEND, MDBX_UPSERT} :
        /\ etl.phase = "collect"
        /\ LET loaded == LoadSorted(etl.dest, LoadOrder(etl.entries), flags)
           IN  etl' = [etl EXCEPT !.phase = "loaded",
                                  !.presented = LoadOrder(etl.entries),
                                  !.dest = loaded.table,
                                  !.ok = loaded.ok,
                                  !.flags = flags]
        /\ UNCHANGED << canonical, hnDb, progDb, hnTx, progTx, progresses_,
                        unwind_height_, last, prev, pristine, is_done_, cycle >>
        /\ UNCHANGED << prune_progresses_, pruneDb, last_prune, farm, rlp >>

\* The Collector is destroyed and a new one constructed for a destination.
EtlRenew ==
    \E dest0 \in DestTables :
        /\ etl.phase = "loaded" \/ etl.collected = << >>
        /\ etl' = EtlNew(dest0)
        /\ etl' # etl
        /\ UNCHANGED << canonical, hnDb, progDb, hnTx, progTx, progresses_,
                        unwind_height_, last, prev, pristine, is_done_, cycle >>
        /\ UNCHANGED << prune_progresses_, pruneDb, last_prune, farm, rlp >>

NextCollector ==
    \/ EtlCollect
    \/ EtlLoad
    \/ EtlRenew

SpecCollector == Init /\ [][NextCollector]_vars

\* --------------------------------------------------------------------- C16
\* How often e occurs in the sequence.
Count(seq, e) == Cardinality({i \in DOMAIN seq : seq[i] = e})

\* The sequence with the entries at positions i and j exchanged.
Swap(seq, i, j) ==
    [n \in DOMAIN seq |-> IF n = i THEN seq[j] ELSE IF n = j THEN seq[i] ELSE seq[n]]

\* The Collector after the collect calls of the sequence, in order.
RECURSIVE CollectAll(_, _)
CollectAll(c, seq) ==
    IF seq = << >> THEN c ELSE CollectAll(collect(c, Head(seq)), Tail(seq))

\* What a load yields after the collect calls of the sequence.
LoadAfter(seq, dest0, flags) ==
    LoadSorted(dest0, LoadOrder(CollectAll(NoEntries, seq)), flags)

\* C16: whatever the order of the collect calls and however many runs were
\* spilled, load presents to the destination exactly the collected entries,
\* each as often as it was collected, in non-decreasing (key, value) order;
\* exchanging any two collect calls leaves the outcome of the load and the
\* destination the same.
C16_LoadSorted ==
    etl.phase = "loaded"
        => /\ \A e \in EtlEntries :
                  Count(etl.presented, e) = Count(etl.collected, e)
           /\ Len(etl.presented) = Len(etl.collected)
           /\ \A i \in 1 .. (Len(etl.presented) - 1) :
                  ~ EntryLess(etl.presented[i + 1], etl.presented[i])
           /\ \A i, j \in DOMAIN etl.collected :
                  LET other == LoadAfter(Swap(etl.collected, i, j),
                                         etl.dest0, etl.flags)
                  IN  other.ok = etl.ok /\ other.table = etl.dest

\* A load has merged a spilled run with the rest of the buffer, the entries
\* having been collected in descending order.
C16_Witness ==
    /\ etl.phase = "loaded"
    /\ Len(etl.collected) = MaxCollect
    /\ etl.entries.runs # << >>
    /\ etl.entries.buffer # << >>
    /\ \A i \in 1 .. (Len(etl.collected) - 1) :
           EntryLess(etl.collected[i + 1], etl.collected[i])
    /\ etl.ok

\* --------------------------------------------------------------------- C17
\* The entries (b, 1) and (a, 1), with a < b.
EntryA == [key |-> Hash(1), value |-> block_key(1)]
EntryB == [key |-> Hash(2), value |-> block_key(1)]

stages_ == << [key |-> kBlockHashesKey, ordinal |-> 1, disabled |-> FALSE] >>

\* db::stages::kReverseStages: the stage keys in descending stage order.
kReverseStages == << "Execution", "Senders", kBlockHashesKey >>

\* std::find_if over stages_: the stage with that key, if it is loaded.
FindStage(stage_key) == {n \in DOMAIN stages_ : stages_[n].key = stage_key}

\* The tables and the context's progress cache, which no step of run or
\* run_cycle touches.
DriverUnchanged ==
    /\ UNCHANGED << canonical, hnDb, progDb, hnTx, progTx, progresses_,
                    unwind_height_, last, prev, pristine, etl, is_done_ >>
    /\ UNCHANGED << prune_progresses_, pruneDb, last_prune, farm, rlp >>

\* SyncManager::run is called.
RunEnter ==
    /\ cycle.pc = "idle"
    /\ cycle' = [cycle EXCEPT !.pc = "run_test", !.res = "kSuccess",
                              !.returned = FALSE, !.visited = << >>,
                              !.invoked = << >>, !.i = 0]
    /\ UNCHANGED << canonical, hnDb, progDb, progresses_, unwind_height_,
                    is_done_ >>
    /\ last' = NoCall
    /\ prev' = NoCall
    /\ hnTx' = hnDb
    /\ progTx' = progDb
    /\ UNCHANGED << pristine, etl >>
    /\ UNCHANGED << prune_progresses_, pruneDb, last_prune, farm, rlp >>

\* Mutant: run calls run_cycle again whether or not is_done is set.
RunTest_IgnoresDone ==
    /\ cycle.pc = "run_test"
    /\ cycle' = [cycle EXCEPT !.pc = "cycle_test"]
    /\ DriverUnchanged

\* run: the test of `while (!context_.is_done())`; when done, `return res`.
RunTest ==
    /\ cycle.pc = "run_test"
    /\ cycle' = IF is_done_
                THEN [cycle EXCEPT !.pc = "idle", !.returned = TRUE]
                ELSE [cycle EXCEPT !.pc = "cycle_test"]
    /\ DriverUnchanged

\* Mutant: run clears first_cycle_ before it looks at the cycle's result.
CycleTest_ClearsFirst ==
    /\ cycle.pc = "cycle_test"
    /\ IF is_done_
       THEN \E res \in StageResults :
                cycle' = IF res # "kSuccess"
                         THEN [cycle EXCEPT !.pc = "idle", !.res = res,
                                            !.returned = TRUE,
                                            !.first_cycle_ = FALSE]
                         ELSE [cycle EXCEPT !.pc = "run_test", !.res = res,
                                            !.first_cycle_ = FALSE]
       ELSE cycle' = [cycle EXCEPT !.pc = "unwind_test"]
    /\ DriverUnchanged

\* run_cycle: the test of `while (!context_.is_done())`.  When done, control
\* flows off the end of run_cycle, which has no return statement: the value
\* run receives is undefined.  run returns it when it is not kSuccess, else
\* clears first_cycle_ and tests again.
CycleTest ==
    /\ cycle.pc = "cycle_test"
    /\ IF is_done_
       THEN \E res \in StageResults :
                cycle' = IF res # "kSuccess"
                         THEN [cycle EXCEPT !.pc = "idle", !.res = res,
                                            !.returned = TRUE]
                         ELSE [cycle EXCEPT !.pc = "run_test", !.res = res,
                                            !.first_cycle_ = FALSE]
       ELSE cycle' = [cycle EXCEPT !.pc = "unwind_test"]
    /\ DriverUnchanged

\* run_cycle: `if (context_.unwind_height().has_value())`.
UnwindTest ==
    /\ cycle.pc = "unwind_test"
    /\ cycle' = IF unwind_height_ # nullopt
                THEN [cycle EXCEPT !.pc = "for", !.i = 1, !.visited = << >>]
                ELSE [cycle EXCEPT !.pc = "cycle_test"]
    /\ DriverUnchanged

\* run_cycle: one iteration of the loop over kReverseStages, or its end.  A
\* stage that is not loaded or is disabled is skipped; for the others the
\* loop body is empty.
ForStep ==
    /\ cycle.pc = "for"
    /\ cycle' =
          IF cycle.i > Len(kReverseStages)
          THEN [cycle EXCEPT !.pc = "cycle_test"]
          ELSE LET item == FindStage(kReverseStages[cycle.i])
               IN  IF item = {} \/ \A n \in item : stages_[n].disabled
                   THEN [cycle EXCEPT !.i = cycle.i + 1]
                   ELSE [cycle EXCEPT !.i = cycle.i + 1,
                                      !.visited = Append(cycle.visited,
                                                         kReverseStages[cycle.i])]
    /\ DriverUnchanged

\* SyncContext::set_done, called while run is running.
SetDone ==
    /\ cycle.pc # "idle"
    /\ ~ is_done_
    /\ is_done_' = TRUE
    /\ UNCHANGED << canonical, hnDb, progDb, hnTx, progTx, progresses_,
                    unwind_height_, last, prev, pristine, etl, cycle >>
    /\ UNCHANGED << prune_progresses_, pruneDb, last_prune, farm, rlp >>

\* The stages called on their own before run is first called, run itself,
\* and the signals that arrive while it runs.
NextDriver ==
    \/ cycle = CycleIdle /\ Next
    \/ RunEnter
    \/ RunTest
    \/ CycleTest
    \/ UnwindTest
    \/ ForStep
    \/ SetDone
    \/ cycle.pc # "idle" /\ SetUnwindHeight

SpecDriver == Init /\ [][NextDriver]_vars

\* --------------------------------------------------------------------- C18
\* The stages run_cycle has to run: loaded and not disabled.
EnabledStages == {n \in DOMAIN stages_ : ~ stages_[n].disabled}

\* run_cycle has called forward on the stage.
ForwardInvoked(n) ==
    \E m \in DOMAIN cycle.invoked :
        cycle.invoked[m] = [op |-> "forward", key |-> stages_[n].key]

\* The step ends one pass of run_cycle's loop: control is back at its test.
CyclePassEnds ==
    cycle.pc \in {"unwind_test", "for"} /\ cycle'.pc = "cycle_test"

\* C18 as stated: when a pass of the cycle ends, forward has been invoked on
\* every enabled stage (in ascending ordinal order, up to the first one that
\* did not return success).
C18_AsStated ==
    [][CyclePassEnds => \A n \in EnabledStages : ForwardInvoked(n)']_vars

\* --------------------------------------------------------------------- C19
\* The ordinal of the loaded stage with that key.
OrdinalOf(stage_key) ==
    stages_[CHOOSE n \in DOMAIN stages_ : stages_[n].key = stage_key].ordinal

\* The step is a call of unwind by a stage whose progress is not above the
\* unwind height (or with no unwind height set).
UnwindNotNeeded ==
    /\ cycle' = cycle
    /\ last'.op = "unwind"
    /\ unwind_height_ = nullopt \/ unwind_height_[1] >= last'.start

C20_AsStated ==
    [][(/\ cycle.pc = "for"
        /\ cycle.i > Len(kReverseStages)
        /\ cycle'.pc = "cycle_test")
          => unwind_height_' = nullopt]_vars

\* --------------------------------------------------------------------- C21
\* The step in which run_cycle hands its result to run.
CycleReturns == cycle.pc = "cycle_test" /\ cycle'.pc \in {"idle", "run_test"}

\* The step in which run returns to its caller.
RunReturns == ~ cycle.returned /\ cycle'.returned

\* C21: run calls run_cycle only while is_done is false; when a cycle returns
\* a result that is not success run returns it at once; when a cycle returns
\* success run tests is_done again, and with is_done set it returns the
\* result of the last cycle.
C21_RunTermination ==
    [][ /\ (cycle.pc = "run_test" /\ cycle'.pc = "cycle_test") => ~ is_done_
        /\ (CycleReturns /\ cycle'.res # "kSuccess")
               => RunReturns /\ cycle'.pc = "idle"
        /\ (CycleReturns /\ cycle'.res = "kSuccess")
               => ~ cycle'.returned /\ cycle'.pc = "run_test"
        /\ (cycle.pc = "run_test" /\ is_done_ /\ cycle' # cycle)
               => RunReturns /\ cycle'.res = cycle.res
        /\ RunReturns
               => \/ cycle.pc = "run_test" /\ is_done_
                  \/ CycleReturns /\ cycle'.res # "kSuccess" ]_vars

\* run has returned a result that is not success.
C21_Witness ==
    /\ cycle.returned
    /\ cycle.pc = "idle"
    /\ cycle.res = "kDbError"
    /\ is_done_

\* --------------------------------------------------------------------- C22
\* C22: first_cycle_ is true when the driver is constructed; a step changes
\* it only from true to false and only when a cycle hands the result success
\* to run; once false it stays false.
C22_FirstCycle ==
    [][ /\ cycle'.first_cycle_ # cycle.first_cycle_
               => /\ cycle.first_cycle_
                  /\ ~ cycle'.first_cycle_
                  /\ CycleReturns
                  /\ cycle'.res = "kSuccess"
        /\ (CycleReturns /\ cycle'.res = "kSuccess") => ~ cycle'.first_cycle_
        /\ (CycleReturns /\ cycle'.res # "kSuccess")
               => cycle'.first_cycle_ = cycle.first_cycle_
        /\ ~ cycle.first_cycle_ => ~ cycle'.first_cycle_ ]_vars

\* run has returned after a failed first cycle, first_cycle_ still set.
C22_Witness ==
    /\ cycle.returned
    /\ cycle.res # "kSuccess"
    /\ cycle.first_cycle_

\* --------------------------------------------------------------------- C23
\* C23 as stated: after a stage call that did not commit, get_progress for
\* the stage, asked in a transaction that sees the store as committed,
\* returns the watermark the store holds.
C23_AsStated ==
    (last.op # "none" /\ ~ last.commit)
        => get_progress(progresses_, progDb, kBlockHashesKey) = StoredProgress

\* --------------------------------------------------------------------- C24
\* Mutant: a prune that records the stage's forward watermark as pruned, as
\* a stage with pruning would.
prune_ToProgress(cache, tbl, progress) ==
    [result |-> "kSuccess",
     cache |-> update_prune_progress_cache(cache, kBlockHashesKey, progress),
     tbl |-> write_stage_prune_progress(tbl, kBlockHashesKey, progress)]

\* IStage::prune, which StageBlockHashes does not override: it logs a warning
\* and succeeds, and writes no watermark.
prune(cache, tbl, progress) ==
    [result |-> "kSuccess", cache |-> cache, tbl |-> tbl]

\* A call of the BlockHashes stage's prune.
Prune ==
    /\ LET out == prune(prune_progresses_, pruneDb,
                        get_progress(progresses_, progDb, kBlockHashesKey))
       IN  /\ prune_progresses_' = out.cache
           /\ pruneDb' = out.tbl
           /\ last_prune' = [op |-> "prune", result |-> out.result]
    /\ UNCHANGED << canonical, hnDb, progDb, hnTx, progTx, progresses_,
                    unwind_height_, last, prev, pristine, etl, is_done_,
                    cycle, farm, rlp >>

NextPrune ==
    \/ Next
    \/ Prune

SpecPrune == Init /\ [][NextPrune]_vars

MaxFarmBlocks == 3
MaxTxns == 2
batch_size_ == 2
max_workers_ == 2
MaxStoppers == 2

\* The threads that may call stop.
Stoppers == 1 .. MaxStoppers

FarmBlocks == 1 .. MaxFarmBlocks

\* The sender address of transaction `index` of block `block_num`.
Address(block_num, index) == 10 * block_num + index

\* The recovery packages of one block, in transaction order.
Packages(block_num, txn_count) ==
    [i \in 1 .. txn_count |-> [block_num |-> block_num, index |-> i]]

\* Mutant: a worker hands its results back last package first.
RecoverBatch_Reversed(batch) ==
    [i \in DOMAIN batch |->
        [block_num |-> batch[Len(batch) + 1 - i].block_num,
         address |-> Address(batch[Len(batch) + 1 - i].block_num,
                             batch[Len(batch) + 1 - i].index)]]

\* RecoveryWorker: the recovered address of every package of a batch, in the
\* order of the batch.
RecoverBatch(batch) ==
    [i \in DOMAIN batch |->
        [block_num |-> batch[i].block_num,
         address |-> Address(batch[i].block_num, batch[i].index)]]

\* collect_workers_results: the results of one batch grouped by block, one
\* collector entry per run of results of the same block.
RECURSIVE GroupByBlock(_)
GroupByBlock(results) ==
    IF results = << >> THEN << >>
    ELSE LET rest == GroupByBlock(Tail(results))
             r == Head(results)
         IN  IF rest # << >> /\ Head(rest).block_num = r.block_num
             THEN << [block_num |-> r.block_num,
                      value |-> << r.address >> \o Head(rest).value] >>
                  \o Tail(rest)
             ELSE << [block_num |-> r.block_num, value |-> << r.address >>] >>
                  \o rest

\* Insert one entry into a sequence sorted by block key.
RECURSIVE FarmSortedInsert(_, _)
FarmSortedInsert(sorted, e) ==
    IF sorted = << >> THEN << e >>
    ELSE IF BytesLess(block_key(e.block_num), block_key(Head(sorted).block_num))
    THEN << e >> \o sorted
    ELSE << Head(sorted) >> \o FarmSortedInsert(Tail(sorted), e)

RECURSIVE FarmSort(_)
FarmSort(entries) ==
    IF entries = << >> THEN << >>
    ELSE FarmSortedInsert(FarmSort(Tail(entries)), Head(entries))

\* Collector::load in append mode into the Senders table: entries in key
\* order, each key strictly above the one before.
RECURSIVE FarmAppend(_, _)
FarmAppend(t, sorted) ==
    IF sorted = << >> THEN [ok |-> TRUE, table |-> t]
    ELSE LET k == block_key(Head(sorted).block_num)
         IN  IF \E x \in DOMAIN t : ~ BytesLess(x, k)
             THEN [ok |-> FALSE, table |-> t]
             ELSE FarmAppend(Put(t, k, Head(sorted).value), Tail(sorted))

\* A farm constructed for blocks 1 .. MaxFarmBlocks with the given number of
\* transactions each, at the entry of recover.
FarmNew(txns) ==
    [pc |-> "fill", txns |-> txns, next |-> 1, batch_ |-> << >>,
     workers_ |-> << >>, harvestable_workers_ |-> << >>,
     is_stopping_ |-> FALSE, stop_pc |-> "none", collector_ |-> << >>,
     senders |-> EmptyTable, progress |-> 0, result |-> "none",
     commit |-> FALSE, stoppers |-> [t \in Stoppers |-> "out"],
     stop_all_workers_calls |-> 0]

IdleWorkers(f) == {w \in DOMAIN f.workers_ : f.workers_[w].state = "idle"}
BusyWorkers(f) == {w \in DOMAIN f.workers_ : f.workers_[w].state = "busy"}

\* Mutant: the producer looks at the flag between blocks only.
observes_stop_BetweenBlocksOnly(f) == f.is_stopping_ /\ f.pc = "fill"

\* RecoveryFarm::is_stopping as the producer reads it: at the head of the
\* block loop, while it waits to dispatch or for the workers, and during the
\* collector's load.
observes_stop(f) ==
    f.is_stopping_ /\ f.pc \in {"fill", "dispatch", "flush", "wait", "load"}

\* transform_and_fill_batch: the packages of a block join the batch together;
\* a batch they would overflow is dispatched first.
fill_batch(f) ==
    LET n == f.txns[f.next]
    IN  IF f.batch_ # << >> /\ Len(f.batch_) + n > batch_size_
        THEN [f EXCEPT !.pc = "dispatch"]
        ELSE [f EXCEPT !.batch_ = f.batch_ \o Packages(f.next, n),
                       !.next = f.next + 1]

\* Mutant: a batch that finds no idle worker always gets a new one.
dispatch_batch_NoCeiling(f) ==
    IF IdleWorkers(f) # {}
    THEN LET w == CHOOSE x \in IdleWorkers(f) : \A y \in IdleWorkers(f) : x <= y
         IN  [f EXCEPT !.workers_[w] = [state |-> "busy", batch |-> f.batch_,
                                        results |-> << >>],
                       !.batch_ = << >>]
    ELSE [f EXCEPT !.workers_ = Append(f.workers_,
                                       [state |-> "busy", batch |-> f.batch_,
                                        results |-> << >>]),
                   !.batch_ = << >>]

\* dispatch_batch with initialize_new_worker: the batch goes to the first
\* idle worker; with none idle and fewer than max_workers_ workers a new
\* worker is spawned for it; otherwise the farm is returned as it is and the
\* producer has to wait.
dispatch_batch(f) ==
    IF IdleWorkers(f) # {}
    THEN LET w == CHOOSE x \in IdleWorkers(f) : \A y \in IdleWorkers(f) : x <= y
         IN  [f EXCEPT !.workers_[w] = [state |-> "busy", batch |-> f.batch_,
                                        results |-> << >>],
                       !.batch_ = << >>]
    ELSE IF Len(f.workers_) < max_workers_
    THEN [f EXCEPT !.workers_ = Append(f.workers_,
                                       [state |-> "busy", batch |-> f.batch_,
                                        results |-> << >>]),
                   !.batch_ = << >>]
    ELSE f

\* What no step of the farm touches.
FarmFrame ==
    UNCHANGED << canonical, hnDb, progDb, hnTx, progTx, progresses_,
                 unwind_height_, last, prev, pristine, etl, is_done_, cycle,
                 prune_progresses_, pruneDb, last_prune, rlp >>

FarmRunning == farm.pc \notin {"none", "returned"}

\* The producer at the head of the block loop: the next block joins the
\* batch, or the batch has to go first, or the blocks are exhausted.
FarmFill ==
    /\ farm.pc = "fill"
    /\ ~ observes_stop(farm)
    /\ farm' = IF farm.next > MaxFarmBlocks THEN [farm EXCEPT !.pc = "flush"]
               ELSE fill_batch(farm)
    /\ FarmFrame

\* The producer dispatches a batch that filled, or flushes the last one; it
\* cannot while every worker is busy and the ceiling is reached.
FarmDispatch ==
    /\ farm.pc \in {"dispatch", "flush"}
    /\ ~ observes_stop(farm)
    /\ LET after == IF farm.pc = "dispatch" THEN "fill" ELSE "wait"
       IN  IF farm.batch_ = << >>
           THEN farm' = [farm EXCEPT !.pc = after]
           ELSE /\ dispatch_batch(farm) # farm
                /\ farm' = [dispatch_batch(farm) EXCEPT !.pc = after]
    /\ FarmFrame

\* A worker finishes its batch: task_completed_handler queues it for harvest.
WorkerComplete ==
    \E w \in BusyWorkers(farm) :
        /\ FarmRunning
        /\ ~ farm.is_stopping_
        /\ farm' = [farm EXCEPT
                      !.workers_[w].state = "done",
                      !.workers_[w].results =
                          RecoverBatch(farm.workers_[w].batch),
                      !.harvestable_workers_ =
                          Append(farm.harvestable_workers_, w)]
        /\ FarmFrame

\* A worker sees the stop flag between two packages and exits; its batch is
\* dropped.
WorkerStop ==
    \E w \in BusyWorkers(farm) :
        /\ FarmRunning
        /\ farm.is_stopping_
        /\ farm' = [farm EXCEPT !.workers_[w].state = "stopped"]
        /\ FarmFrame

\* collect_workers_results for the worker get_harvestable_worker returns,
\* the first in the queue: its results go to the collector block by block and
\* the worker is idle again.
FarmHarvest ==
    /\ farm.pc \in {"fill", "dispatch", "flush", "wait"}
    /\ ~ observes_stop(farm)
    /\ farm.harvestable_workers_ # << >>
    /\ LET w == Head(farm.harvestable_workers_)
       IN  farm' = [farm EXCEPT
                      !.harvestable_workers_ = Tail(farm.harvestable_workers_),
                      !.collector_ = farm.collector_
                                     \o GroupByBlock(farm.workers_[w].results),
                      !.workers_[w] = [state |-> "idle", batch |-> << >>,
                                       results |-> << >>]]
    /\ FarmFrame

\* The producer's wait ends: no worker is at work and the queue is drained.
FarmWaitDone ==
    /\ farm.pc = "wait"
    /\ ~ observes_stop(farm)
    /\ BusyWorkers(farm) = {}
    /\ farm.harvestable_workers_ = << >>
    /\ farm' = [farm EXCEPT !.pc = "load"]
    /\ FarmFrame

\* collector.load(dest, APPEND); a key the destination rejects ends the call.
FarmLoad ==
    /\ farm.pc = "load"
    /\ ~ observes_stop(farm)
    /\ LET loaded == FarmAppend(farm.senders, FarmSort(farm.collector_))
       IN  farm' = IF loaded.ok
                   THEN [farm EXCEPT !.pc = "commit", !.senders = loaded.table]
                   ELSE [farm EXCEPT !.pc = "returned",
                                     !.result = "kBadChainSequence"]
    /\ FarmFrame

\* Watermark update and commit; recover returns success.
FarmCommit ==
    /\ farm.pc = "commit"
    /\ farm' = [farm EXCEPT !.pc = "returned", !.result = "kSuccess",
                            !.commit = TRUE, !.progress = MaxFarmBlocks]
    /\ FarmFrame

\* The producer sees the stop flag: the workers are stopped, what is
\* outstanding is dropped, nothing is committed.
FarmAbort ==
    /\ FarmRunning
    /\ observes_stop(farm)
    /\ farm' = [farm EXCEPT
                  !.pc = "returned", !.result = "kAborted",
                  !.senders = EmptyTable, !.collector_ = << >>,
                  !.batch_ = << >>, !.harvestable_workers_ = << >>,
                  !.workers_ = [w \in DOMAIN farm.workers_ |->
                                  [state |-> "stopped", batch |-> << >>,
                                   results |-> << >>]]]
    /\ FarmFrame

\* Mutant: a plain exchange, which stores the value and reports success
\* whatever was there.
compare_exchange_strong_Always(value, expected, desired) ==
    [success |-> TRUE, value |-> desired]

\* std::atomic_bool::compare_exchange_strong, in one atomic step: the value
\* becomes `desired` and the call succeeds only if it was `expected`.
compare_exchange_strong(value, expected, desired) ==
    [success |-> value = expected,
     value |-> IF value = expected THEN desired ELSE value]

\* RecoveryFarm::stop, called from another thread while recover runs: the
\* compare-exchange on is_stopping_.  The caller that finds it false goes on
\* to stop_all_workers; any other returns at once.
FarmStop ==
    \E t \in Stoppers :
        /\ FarmRunning
        /\ farm.stoppers[t] = "out"
        /\ LET cas == compare_exchange_strong(farm.is_stopping_, FALSE, TRUE)
           IN  farm' = [farm EXCEPT
                          !.is_stopping_ = cas.value,
                          !.stop_pc = IF farm.is_stopping_ THEN farm.stop_pc
                                      ELSE farm.pc,
                          !.stoppers[t] = IF cas.success THEN "won" ELSE "done"]
        /\ FarmFrame

\* RecoveryFarm::stop, after a compare-exchange that succeeded:
\* stop_all_workers(false), then stop returns.
FarmStopAllWorkers ==
    \E t \in Stoppers :
        /\ farm.stoppers[t] = "won"
        /\ farm' = [farm EXCEPT
                      !.stoppers[t] = "done",
                      !.stop_all_workers_calls = farm.stop_all_workers_calls + 1]
        /\ FarmFrame

NextFarm ==
    \/ FarmFill
    \/ FarmDispatch
    \/ WorkerComplete
    \/ WorkerStop
    \/ FarmHarvest
    \/ FarmWaitDone
    \/ FarmLoad
    \/ FarmCommit
    \/ FarmAbort
    \/ FarmStop
    \/ FarmStopAllWorkers

\* A farm for every assignment of transaction counts to the blocks.
InitFarm ==
    /\ InitStaged
    /\ rlp = NoStream
    /\ farm \in {FarmNew(txns) : txns \in [FarmBlocks -> 0 .. MaxTxns]}

SpecFarm == InitFarm /\ [][NextFarm]_vars

ExpectedSenders(block_num) ==
    [i \in 1 .. farm.txns[block_num] |-> Address(block_num, i)]

\* How many times an address stands in the collector.
RECURSIVE TimesCollected(_, _)
TimesCollected(entries, a) ==
    IF entries = << >> THEN 0
    ELSE Cardinality({i \in DOMAIN Head(entries).value :
                         Head(entries).value[i] = a})
         + TimesCollected(Tail(entries), a)

AllHarvested == farm.pc \in {"load", "commit"} \/ farm.result = "kSuccess"

Spawned == Len(farm'.workers_) > Len(farm.workers_)

MustDispatch == farm.pc \in {"dispatch", "flush"} /\ farm.batch_ # << >>

\* One step of the farm keeps to the ceiling.
CeilingKept ==
    /\ Len(farm'.workers_) <= max_workers_
    /\ Spawned => /\ MustDispatch
                  /\ IdleWorkers(farm) = {}
                  /\ Len(farm.workers_) < max_workers_
                  /\ Len(farm'.workers_) = Len(farm.workers_) + 1
                  /\ farm'.workers_[Len(farm'.workers_)].batch = farm.batch_
                  /\ farm'.batch_ = << >>
    /\ (MustDispatch /\ IdleWorkers(farm) = {}
            /\ Len(farm.workers_) = max_workers_)
          => \/ farm'.batch_ = farm.batch_ /\ farm'.pc = farm.pc
             \/ farm'.result = "kAborted"

\* C27: the farm never has more than max_workers_ workers; a worker is
\* spawned only for a batch that must be dispatched (one that filled, or the
\* last one, which may be partial), with no worker idle and fewer than
\* max_workers_ in existence, and it is given that batch; with no worker idle
\* and max_workers_ in existence the producer keeps the batch and stays where
\* it is, unless the call is aborted.
C27_WorkerCeiling == [][CeilingKept]_vars

\* Every worker there may be is at work and the producer holds a batch it
\* cannot dispatch.
C27_Witness ==
    /\ MustDispatch
    /\ IdleWorkers(farm) = {}
    /\ Len(farm.workers_) = max_workers_
    /\ Cardinality(BusyWorkers(farm)) = max_workers_

\* C27 as stated: a worker is spawned only when a full batch must be
\* dispatched.
C27_AsStated == [][ Spawned =>
    (farm.pc = "dispatch" \/ Len(farm.batch_) >= batch_size_) ]_vars

\* ------------------------------------------------------------- rlp::decode
\* The bytes the tail of an input is made of, the header bytes an input
\* starts with, and how long a tail of arbitrary bytes or of one repeated
\* byte may be.
MaxTailLen == 3
MaxFillLen == 9
RlpBytes == {0, 1, 5, 55, 56, 128, 255}
FirstBytes ==
    {0, 9, 127, 128, 129, 130, 131, 136, 137, 183, 184, 185, 191, 192, 193,
     247, 248, 249, 255}

Fill(b, n) == [i \in 1 .. n |-> b]

RlpTails ==
    UNION {[1 .. n -> RlpBytes] : n \in 0 .. MaxTailLen}
    \cup {Fill(b, n) : b \in {0, 5, 255}, n \in (MaxTailLen + 1) .. MaxFillLen}
    \cup {<< b >> \o Fill(0, n - 1) :
             b \in {1, 56}, n \in (MaxTailLen + 1) .. MaxFillLen}

RlpInputs == {<< >>} \cup {<< b >> \o t : b \in FirstBytes, t \in RlpTails}

\* A uint64 is held as its eight bytes in memory, lowest address first; the
\* machine is little-endian, so byte 1 is the least significant.
U64(n) == [i \in 1 .. 8 |-> IF i = 1 THEN n ELSE 0]

\* v < n, for n up to 256.
U64Below(v, n) == v[1] < n /\ \A i \in 2 .. 8 : v[i] = 0

\* intx::bswap: the bytes in reverse order.
bswap(mem) == [i \in 1 .. 8 |-> mem[9 - i]]

\* buf = 0; from.read(p + (8 - len), len): the last len bytes of buf are the
\* next len bytes of the stream.
ReadInto(bytes, pos, len) ==
    [i \in 1 .. 8 |-> IF i <= 8 - len THEN 0 ELSE bytes[pos + i - (8 - len)]]

\* The stream throws on end of file and on a failed read, as decode_header
\* sets it to.
IosFailure == [ok |-> FALSE, error |-> "std::ios_base::failure", what |-> ""]

DecodingError(what) == [ok |-> FALSE, error |-> "DecodingError", what |-> what]

\* Mutant: a payload is read whatever its first byte.
read_uint64_NoLeadingCheck(bytes, pos, len) ==
    IF len = 0 THEN [ok |-> TRUE, value |-> U64(0), pos |-> pos]
    ELSE IF pos >= Len(bytes) THEN IosFailure
    ELSE IF pos + len > Len(bytes) THEN IosFailure
    ELSE [ok |-> TRUE, value |-> bswap(ReadInto(bytes, pos, len)),
          pos |-> pos + len]

\* read_uint64(from, len) on the stream `bytes` of which `pos` bytes are
\* consumed, for len <= 8: the value read and the new position, or what is
\* thrown.  peek at the end of the stream throws, as does a short read.
read_uint64(bytes, pos, len) ==
    IF len = 0 THEN [ok |-> TRUE, value |-> U64(0), pos |-> pos]
    ELSE IF pos >= Len(bytes) THEN IosFailure
    ELSE IF bytes[pos + 1] = 0 THEN DecodingError("leading zero(s)")
    ELSE IF pos + len > Len(bytes) THEN IosFailure
    ELSE [ok |-> TRUE, value |-> bswap(ReadInto(bytes, pos, len)),
          pos |-> pos + len]

Header(list, payload_length, pos) ==
    [ok |-> TRUE, list |-> list, payload_length |-> payload_length, pos |-> pos]

\* Mutant: a long-form header of any length is taken.
LongHeader_NoSizeCheck(list, r) ==
    IF ~ r.ok THEN r ELSE Header(list, r.value, r.pos)

\* decode_header, the two long forms: the length read by read_uint64 must be
\* at least 56.
LongHeader(list, r) ==
    IF ~ r.ok THEN r
    ELSE IF U64Below(r.value, 56) THEN DecodingError("non-canonical size")
    ELSE Header(list, r.value, r.pos)

\* Mutant: the byte behind the header 0x81 is not looked at.
decode_header_NoSingleByteCheck(bytes) ==
    IF bytes = << >> THEN IosFailure
    ELSE LET b == bytes[1]
         IN  IF b < 128 THEN Header(FALSE, U64(1), 0)
             ELSE IF b < 184 THEN Header(FALSE, U64(b - 128), 1)
             ELSE IF b < 192
             THEN LongHeader(FALSE, read_uint64(bytes, 1, b - 183))
             ELSE IF b < 248 THEN Header(TRUE, U64(b - 192), 1)
             ELSE LongHeader(TRUE, read_uint64(bytes, 1, b - 247))

\* decode_header on a fresh stream: the header and the position of the
\* payload, or what is thrown.
decode_header(bytes) ==
    IF bytes = << >> THEN IosFailure
    ELSE LET b == bytes[1]
         IN  IF b < 128 THEN Header(FALSE, U64(1), 0)
             ELSE IF b < 184
             THEN IF b - 128 = 1 /\ Len(bytes) < 2 THEN IosFailure
                  ELSE IF b - 128 = 1 /\ bytes[2] < 128
                  THEN DecodingError("non-canonical single byte")
                  ELSE Header(FALSE, U64(b - 128), 1)
             ELSE IF b < 192
             THEN LongHeader(FALSE, read_uint64(bytes, 1, b - 183))
             ELSE IF b < 248 THEN Header(TRUE, U64(b - 192), 1)
             ELSE LongHeader(TRUE, read_uint64(bytes, 1, b - 247))

\* Mutant: a list header is taken for a string header.
decode_uint64_NoListCheck(bytes) ==
    LET h == decode_header(bytes)
    IN  IF ~ h.ok THEN h
        ELSE IF ~ U64Below(h.payload_length, 9)
        THEN DecodingError("uint64 overflow")
        ELSE read_uint64(bytes, h.pos, h.payload_length[1])

\* decode(from, uint64_t&) on a fresh stream.
decode_uint64(bytes) ==
    LET h == decode_header(bytes)
    IN  IF ~ h.ok THEN h
        ELSE IF h.list THEN DecodingError("unexpected list")
        ELSE IF ~ U64Below(h.payload_length, 9)
        THEN DecodingError("uint64 overflow")
        ELSE read_uint64(bytes, h.pos, h.payload_length[1])

RlpFrame ==
    UNCHANGED << canonical, hnDb, progDb, hnTx, progTx, progresses_,
                 unwind_height_, last, prev, pristine, etl, is_done_, cycle,
                 prune_progresses_, pruneDb, last_prune, farm >>

\* decode_header is called on the stream.
DecodeHeader ==
    /\ rlp.op = "none"
    /\ rlp' = [op |-> "decode_header", input |-> rlp.input,
               out |-> decode_header(rlp.input)]
    /\ RlpFrame

\* decode<uint64_t> is called on the stream.
DecodeUint64 ==
    /\ rlp.op = "none"
    /\ rlp' = [op |-> "decode_uint64", input |-> rlp.input,
               out |-> decode_uint64(rlp.input)]
    /\ RlpFrame

NextRlp ==
    \/ DecodeHeader
    \/ DecodeUint64

\* A stream over every input.
InitRlp ==
    /\ InitStaged
    /\ farm = NoFarm
    /\ rlp \in {[op |-> "none", input |-> i] : i \in RlpInputs}

SpecRlp == InitRlp /\ [][NextRlp]_vars

\* What was thrown is a DecodingError, with the given message.
Rejected == ~ rlp.out.ok /\ rlp.out.error = "DecodingError"
RejectedWith(what) == Rejected /\ rlp.out.what = what

\* --------------------------------------------------------------------- C28
\* Where the payload of a string item starts in the input, 0 for a list or an
\* empty string.
PayloadAt(input) ==
    IF input = << >> THEN 0
    ELSE IF input[1] < 128 THEN 1
    ELSE IF input[1] = 128 THEN 0
    ELSE IF input[1] < 184 THEN 2
    ELSE IF input[1] < 192 THEN 2 + (input[1] - 183)
    ELSE 0

BeginsWithZero(input) ==
    /\ PayloadAt(input) > 0
    /\ PayloadAt(input) <= Len(input)
    /\ input[PayloadAt(input)] = 0

\* C28: decoding a uint64 throws a DecodingError for every input whose
\* payload begins with a zero byte, and for a byte below 0x80 behind the
\* header 0x81; an input decoded to zero is the empty string 0x80.
C28_MinimalEncoding ==
    rlp.op = "decode_uint64" =>
        /\ BeginsWithZero(rlp.input) => Rejected
        /\ (Len(rlp.input) >= 2 /\ rlp.input[1] = 129 /\ rlp.input[2] < 128)
              => RejectedWith("non-canonical single byte")
        /\ (rlp.out.ok /\ rlp.out.value = U64(0))
              => rlp.input[1] = 128 /\ rlp.out.pos = 1

\* 82 00 05 has been decoded as a uint64 and rejected for its leading zero.
C28_Witness ==
    /\ rlp.op = "decode_uint64"
    /\ rlp.input = << 130, 0, 5 >>
    /\ RejectedWith("leading zero(s)")

\* --------------------------------------------------------------------- C29
LongForm(input) ==
    input # << >> /\ input[1] \in (184 .. 191) \cup (248 .. 255)

\* The length field of a long-form header, when all of it is there.
FieldLen(input) == IF input[1] < 192 THEN input[1] - 183 ELSE input[1] - 247
FieldPresent(input) == LongForm(input) /\ Len(input) >= 1 + FieldLen(input)
Field(input) == SubSeq(input, 2, 1 + FieldLen(input))

\* The big-endian number a length field encodes is below 56.
FieldBelow56(field) ==
    /\ field[Len(field)] < 56
    /\ \A i \in 1 .. (Len(field) - 1) : field[i] = 0

\* The uint64 a byte string of up to 8 bytes encodes big-endian.
BigEndianU64(payload) ==
    [i \in 1 .. 8 |-> IF i <= Len(payload) THEN payload[Len(payload) + 1 - i]
                      ELSE 0]

\* C29: decode_header throws DecodingError for a long-string or long-list
\* header whose length field begins with a zero byte ("leading zero(s)"), and
\* DecodingError("non-canonical size") for one whose length field has no
\* leading zero and encodes less than 56; any other long-form header is
\* taken with the length its field encodes; so a header taken with a payload
\* length of 0..55 is in the short form.
C29_CanonicalHeader ==
    rlp.op = "decode_header" =>
        /\ (FieldPresent(rlp.input) /\ Field(rlp.input)[1] = 0)
              => RejectedWith("leading zero(s)")
        /\ (FieldPresent(rlp.input) /\ Field(rlp.input)[1] # 0
                /\ FieldBelow56(Field(rlp.input)))
              => RejectedWith("non-canonical size")
        /\ (FieldPresent(rlp.input) /\ Field(rlp.input)[1] # 0
                /\ ~ FieldBelow56(Field(rlp.input)))
              => /\ rlp.out.ok
                 /\ rlp.out.payload_length = BigEndianU64(Field(rlp.input))
        /\ (rlp.out.ok /\ U64Below(rlp.out.payload_length, 56))
              => ~ LongForm(rlp.input)

\* The header B8 37, a long string of 55 bytes, has been rejected.
C29_Witness ==
    /\ rlp.op = "decode_header"
    /\ rlp.input = << 184, 55 >>
    /\ RejectedWith("non-canonical size")

\* --------------------------------------------------------------------- C30
\* A long-form header the decoder takes: its length field is there, has no
\* leading zero and encodes at least 56.
CanonicalLong(input) ==
    /\ FieldPresent(input)
    /\ Field(input)[1] # 0
    /\ ~ FieldBelow56(Field(input))

\* The payload of a string of up to 8 bytes behind a one-byte header.
ShortPayload(input) == SubSeq(input, 2, 1 + (input[1] - 128))

\* The number a uint64 with no more than three significant bytes stands for.
U64Value(v) == v[1] + 256 * v[2] + 65536 * v[3]

\* What decoding gave is the big-endian value of the payload.
ValueOf(payload) ==
    /\ rlp.out.value = BigEndianU64(payload)
    /\ Len(payload) <= 3 =>
          U64Value(rlp.out.value) = BigEndianValue(payload, Len(payload))

\* C30: decoding a uint64 behind a header the decoder takes throws
\* DecodingError("unexpected list") for a list header and
\* DecodingError("uint64 overflow") for a string of more than 8 bytes; a
\* header it does not take (a long form with a length below 56 or with a
\* leading zero) is rejected with the header's own error instead; and
\* whatever is accepted has a payload of 0..8 bytes of which the result is
\* the big-endian value, eight bytes wide.
C30_Uint64Range ==
    rlp.op = "decode_uint64" =>
        /\ (rlp.input # << >> /\ rlp.input[1] \in 192 .. 247)
              => RejectedWith("unexpected list")
        /\ (CanonicalLong(rlp.input) /\ rlp.input[1] >= 248)
              => RejectedWith("unexpected list")
        /\ (rlp.input # << >> /\ rlp.input[1] \in 137 .. 183)
              => RejectedWith("uint64 overflow")
        /\ (CanonicalLong(rlp.input) /\ rlp.input[1] < 192)
              => RejectedWith("uint64 overflow")
        /\ (FieldPresent(rlp.input) /\ ~ CanonicalLong(rlp.input))
              => \/ RejectedWith("non-canonical size")
                 \/ RejectedWith("leading zero(s)")
        /\ rlp.out.ok =>
              /\ DOMAIN rlp.out.value = 1 .. 8
              /\ \A i \in 1 .. 8 : rlp.out.value[i] \in 0 .. 255
              /\ \/ rlp.input[1] < 128 /\ ValueOf(<< rlp.input[1] >>)
                 \/ /\ rlp.input[1] \in 128 .. 136
                    /\ ValueOf(ShortPayload(rlp.input))

\* 88 FF FF FF FF FF FF FF FF has been decoded to the largest uint64.
C30_Witness ==
    /\ rlp.op = "decode_uint64"
    /\ rlp.input = << 136 >> \o Fill(255, 8)
    /\ rlp.out.ok
    /\ rlp.out.value = Fill(255, 8)

\* The big-endian number a length field encodes is above 8.
FieldAbove8(field) ==
    \/ field[Len(field)] > 8
    \/ \E i \in 1 .. (Len(field) - 1) : field[i] # 0

\* C30 as stated: every list header gives "unexpected list" and every string
\* header with a payload length above 8 gives "uint64 overflow".
C30_AsStated ==
    rlp.op = "decode_uint64" =>
        /\ (rlp.input # << >>
                /\ (rlp.input[1] \in 192 .. 247
                    \/ (rlp.input[1] >= 248 /\ FieldPresent(rlp.input))))
              => RejectedWith("unexpected list")
        /\ (rlp.input # << >>
                /\ (rlp.input[1] \in 137 .. 183
                    \/ (rlp.input[1] \in 184 .. 191 /\ FieldPresent(rlp.input)
                        /\ FieldAbove8(Field(rlp.input)))))
              => RejectedWith("uint64 overflow")

\* --------------------------------------------------------------------- C32
\* The blocks the forward call just made collected.
CollectedBlocks == ScanStart .. last.target

\* The block number a load of the collected entries leaves under a hash: of
\* the collected blocks with that hash, the highest.
LoadedNumber(h) ==
    CHOOSE n \in CollectedBlocks :
        /\ canonical[block_key(n)] = h
        /\ \A m \in CollectedBlocks : canonical[block_key(m)] = h => m <= n

\* C32: a forward that loads its collector does so with MDBX_APPEND exactly
\* when HeaderNumbers had no entry, and with MDBX_UPSERT otherwise; a load
\* with MDBX_UPSERT is never rejected, and after it every collected hash,
\* whether or not HeaderNumbers already held it, maps to the block number
\* collected for it.
C32_LoadMode ==
    (last.op = "forward" /\ last.flags # "none")
        => /\ last.flags = MDBX_APPEND <=> IsEmptyTable(last.hn0)
           /\ last.flags = MDBX_UPSERT <=> ~ IsEmptyTable(last.hn0)
           /\ last.flags = MDBX_UPSERT =>
                 /\ last.thrown # "load"
                 /\ \A n \in CollectedBlocks :
                       LET h == canonical[block_key(n)]
                       IN  /\ h \in DOMAIN hnTx
                           /\ hnTx[h] = block_key(LoadedNumber(h))

\* A forward has loaded with MDBX_UPSERT a hash HeaderNumbers already held
\* under another block number, and has succeeded.
C32_Witness ==
    /\ last.op = "forward"
    /\ last.flags = MDBX_UPSERT
    /\ last.result = "kSuccess"
    /\ \E n \in CollectedBlocks :
          LET h == canonical[block_key(n)]
          IN  /\ h \in DOMAIN last.hn0
              /\ last.hn0[h] # hnDb[h]

\* --------------------------------------------------------------------- C33
\* C33 as stated: every entry of the progress cache equals the watermark the
\* transaction holds for its stage key, and every entry of the prune-progress
\* cache the prune watermark stored for it.
C33_AsStated ==
    /\ \A k \in DOMAIN progresses_ :
          progresses_[k] = read_stage_progress(progTx, k)
    /\ \A k \in DOMAIN prune_progresses_ :
          prune_progresses_[k] = read_stage_prune_progress(pruneDb, k)

\* --------------------------------------------------------------------- C34
\* C34 as stated: after an unwind that returned something other than
\* kSuccess, HeaderNumbers as the call's transaction sees it and the
\* BlockHashes watermark in that transaction are what they were before the
\* call.
C34_AsStated ==
    (last.op = "unwind" /\ last.result # "kSuccess")
        => /\ hnTx = last.hn0
           /\ read_stage_progress(progTx, kBlockHashesKey) = last.stored0

\* --------------------------------------------------------------------- C35
\* The callers of stop whose compare-exchange succeeded.
StopWinners(f) == {t \in Stoppers : f.stoppers[t] = "won"}

\* One step keeps stop one-shot.
StopOneShot ==
    /\ farm.is_stopping_ => farm'.is_stopping_
    /\ farm'.stop_all_workers_calls + Cardinality(StopWinners(farm')) =
          (IF farm'.is_stopping_ THEN 1 ELSE 0)
    /\ farm'.stop_all_workers_calls > farm.stop_all_workers_calls
          => /\ farm.stop_all_workers_calls = 0
             /\ farm.is_stopping_
             /\ \E t \in StopWinners(farm) : farm'.stoppers[t] = "done"

\* C35: however many threads call stop and however their steps interleave,
\* is_stopping_ never goes back to false, exactly one caller's
\* compare-exchange succeeds, and stop_all_workers is invoked by that caller
\* and by no other: once, as soon as that caller has moved on.
C35_StopOneShot == [][StopOneShot]_vars

\* Two threads have called stop and both calls are over; stop_all_workers
\* ran once.
C35_Witness ==
    /\ \A t \in Stoppers : farm.stoppers[t] = "done"
    /\ farm.is_stopping_
    /\ farm.stop_all_workers_calls = 1

\* --------------------------------------------------------------------- C36
\* The steps of the thread that runs SyncManager::run.  The thread is
\* scheduled, so a step of it that stays possible is eventually taken;
\* nothing obliges another thread to call set_done or to ask for an unwind.
DriverStep == RunTest \/ CycleTest \/ UnwindTest \/ ForStep

\* The driver under a fair scheduler.
SpecDriverFair == SpecDriver /\ WF_vars(DriverStep)

\* Control is inside run_cycle.
InRunCycle == cycle.pc \in {"cycle_test", "unwind_test", "for"}

\* C36 as stated: whenever control is inside run_cycle, run_cycle eventually
\* hands a StageResult back to run, whether or not anything sets is_done.
C36_AsStated == InRunCycle ~> ~ InRunCycle

\* --------------------------------------------------------------------- C37
\* decode<uint64_t> takes the input and leaves nothing of it unread.
AcceptsWhole(input) ==
    /\ decode_uint64(input).ok
    /\ decode_uint64(input).pos = Len(input)

\* The inputs decode<uint64_t> takes whole.
AcceptedInputs == {input \in RlpInputs : AcceptsWhole(input)}

\* How many bytes of a uint64 are significant.
SignificantBytes(v) ==
    IF \A i \in 1 .. 8 : v[i] = 0 THEN 0
    ELSE CHOOSE n \in 1 .. 8 : v[n] # 0 /\ \A i \in (n + 1) .. 8 : v[i] = 0

\* The shortest encoding of a uint64: its significant bytes, highest first,
\* behind a length byte unless it is a single byte below 0x80.
MinimalEncoding(v) ==
    LET n == SignificantBytes(v)
        payload == [k \in 1 .. n |-> v[n + 1 - k]]
    IN  IF n = 1 /\ v[1] < 128 THEN payload ELSE << 128 + n >> \o payload

\* C37: a value decode<uint64_t> yields has one encoding that is accepted
\* whole, its shortest one: that encoding decodes to the value, it is the
\* part of the input that was consumed, and no other input that is accepted
\* whole decodes to the same value.
C37_UniqueEncoding ==
    (rlp.op = "decode_uint64" /\ rlp.out.ok) =>
        LET e == MinimalEncoding(rlp.out.value)
        IN  /\ decode_uint64(e) =
                   [ok |-> TRUE, value |-> rlp.out.value, pos |-> Len(e)]
            /\ SubSeq(rlp.input, 1, rlp.out.pos) = e
            /\ \A other \in AcceptedInputs :
                   decode_uint64(other).value = rlp.out.value
                       => other = SubSeq(rlp.input, 1, rlp.out.pos)

\* 81 80 has been decoded whole to 128, the least value that needs the
\* header 0x81, and other inputs are accepted whole as well.
C37_Witness ==
    /\ rlp.op = "decode_uint64"
    /\ rlp.input = << 129, 128 >>
    /\ rlp.out.ok
    /\ rlp.out.value = U64(128)
    /\ rlp.out.pos = 2
    /\ rlp.input \in AcceptedInputs
    /\ Cardinality(AcceptedInputs) > 10

\* --------------------------------------------------------------------- C38
\* forward up to the throw of `etl::Collector collector(...)`, the statement
\* in front of its try block: no catch clause of forward is around it, so
\* the call ends without a StageResult and the thrown value goes to the
\* caller.  Nothing was read or written yet.
forward_CollectorThrows(hn, prog, cache, kind) ==
    [result |-> "none", hn |-> hn, prog |-> prog, cache |-> cache,
     commit |-> FALSE, thrown |-> "collector", start |-> 0, target |-> 0,
     collected |-> 0, erased |-> 0, kind |-> kind, flags |-> "none"]

\* A call of forward during which the construction of the Collector throws.
ForwardCollectorThrows ==
    \E kind \in ThrownKinds :
        StageCall("forward",
                  forward_CollectorThrows(hnDb, progDb, progresses_, kind))

\* The last call let what was thrown out to its caller.
Escaped == last.op # "none" /\ last.thrown = "collector"

\* The stage with a store whose calls may throw and a Collector whose
\* construction may throw, followed up to the end of the first call in
\* which something was thrown.
NextBoundary ==
    \/ ~ Escaped /\ NextThrows
    \/ ~ Thrown /\ ~ Escaped /\ ForwardCollectorThrows

SpecBoundary == Init /\ [][NextBoundary]_vars

\* C38 as stated: whatever fails during a call of forward or unwind, the
\* construction of the Collector included, the call ends by returning a
\* StageResult and lets nothing thrown out to the driver.
C38_AsStated ==
    last.op \in {"forward", "unwind"} =>
        /\ last.result \in StageResults
        /\ ~ Escaped

=============================================================================
